---- MODULE Spec2Model ----
(***************************************************************************)
(* Model of the content-generation pipeline of Ad_Post_Agent:              *)
(*   - content_orchestration.py     (Replicate variant,                    *)
(*                                   orchestrate_content_generation)       *)
(*   - content_orchestrationfal.py  (fal.ai variant, LangGraph workflow)   *)
(*   - main.py                      (/generate front end of the workflow)  *)
(* Python values are tagged records so that None, strings, numbers, dicts  *)
(* and lists can be stored in the same dict and compared.                  *)
(***************************************************************************)
EXTENDS Integers, Sequences, FiniteSets, TLC

\* ------------------------------------------------------------------
\* Bounds of the model
\* ------------------------------------------------------------------
\* largest image_count.min that a rules file of the model carries
MaxMinImages == 2

\* ------------------------------------------------------------------
\* Python values
\* ------------------------------------------------------------------
None == [t |-> "none"]
Str(s) == [t |-> "str", s |-> s]
Num(n) == [t |-> "int", n |-> n]
Bool(b) == [t |-> "bool", b |-> b]
Dict(d) == [t |-> "dict", d |-> d]
List(l) == [t |-> "list", l |-> l]
\* an exception raised instead of a value returned
Exc(kind, msg) == [t |-> "exc", kind |-> kind, msg |-> msg]

EmptyMap == [k \in {} |-> None]
EmptyDict == Dict(EmptyMap)
EmptyList == List(<<>>)

IsDict(v) == v.t = "dict"
IsExc(v) == v.t = "exc"

\* Python truthiness (bool(v))
Truthy(v) ==
    CASE v.t = "none" -> FALSE
      [] v.t = "str" -> v.s # ""
      [] v.t = "int" -> v.n # 0
      [] v.t = "bool" -> v.b
      [] v.t = "dict" -> DOMAIN v.d # {}
      [] v.t = "list" -> Len(v.l) > 0
      [] OTHER -> TRUE

\* dict.get(k, default) and `k in dict`
Get(v, k, default) == IF k \in DOMAIN v.d THEN v.d[k] ELSE default
Has(v, k) == k \in DOMAIN v.d

\* `x in list`
InList(x, lst) == \E i \in 1..Len(lst.l) : lst.l[i] = x

\* str(v) / jinja2 rendering of a value
ToStr(v) ==
    CASE v.t = "none" -> "None"
      [] v.t = "str" -> v.s
      [] v.t = "int" -> ToString(v.n)
      [] v.t = "bool" -> IF v.b THEN "True" ELSE "False"
      [] OTHER -> "<obj>"

\* str.upper() on the platform names of the model
Upper(s) ==
    CASE s = "x" -> "X"
      [] s = "tiktok" -> "TIKTOK"
      [] s = "TikTok" -> "TIKTOK"
      [] OTHER -> s

\* ------------------------------------------------------------------
\* Rules configuration (platform_rules_config.json)
\* ------------------------------------------------------------------
CONFIG_FILE == "platform_rules_config.json"

\* the fallback written by load_platform_rules when the file is missing
dummy_config ==
    Dict("PLATFORM_RULES" :> Dict("X" :> Dict("DEFAULT" :> Dict(
        "content_type" :> Str("post") @@
        "objective" :> Str("engagement") @@
        "tone" :> Str("professional") @@
        "text_constraints" :> Dict("max_chars" :> Num(280)) @@
        "media_constraints" :> Dict("type" :> Str("optional"))))))

\* load_platform_rules_fs rewriting the rules file on every load
load_platform_rules_fs_Rewrite(fsv) == dummy_config

\* the file system after load_platform_rules ran: a missing rules file is
\* created with the dummy configuration, an existing one is only read
load_platform_rules_fs(fsv) == IF fsv = None THEN dummy_config ELSE fsv

\* what load_platform_rules returns
load_platform_rules(fsv) == load_platform_rules_fs(fsv).d["PLATFORM_RULES"]

\* ------------------------------------------------------------------
\* deep_merge / build_generation_plan
\* ------------------------------------------------------------------
\* deep_merge without the recursion: an override dict replaces the base dict
deep_merge_Shallow(base, override) ==
    Dict([k \in DOMAIN base.d \cup DOMAIN override.d |->
        IF k \in DOMAIN override.d THEN override.d[k] ELSE base.d[k]])

RECURSIVE deep_merge(_, _)
deep_merge(base, override) ==
    Dict([k \in DOMAIN base.d \cup DOMAIN override.d |->
        IF k \in DOMAIN override.d
        THEN IF k \in DOMAIN base.d /\ IsDict(base.d[k]) /\ IsDict(override.d[k])
             THEN deep_merge(base.d[k], override.d[k])
             ELSE override.d[k]
        ELSE base.d[k]])

\* build_generation_plan looking the platform up as given
build_generation_plan_NoUpper(rules, platform, intent) ==
    LET p == platform IN
    IF ~Has(rules, p)
    THEN Exc("ValueError", "Platform " \o p \o " not found")
    ELSE IF ~Has(rules.d[p], intent)
    THEN Exc("ValueError", "Intent " \o intent \o " not found for platform " \o p)
    ELSE IF ~Has(rules.d[p], "DEFAULT")
    THEN Exc("KeyError", "'DEFAULT'")
    ELSE LET merged == deep_merge(rules.d[p].d["DEFAULT"], rules.d[p].d[intent])
         IN Dict(("_meta" :> Dict("platform" :> Str(p) @@ "intent" :> Str(intent)))
                 @@ merged.d)

build_generation_plan(rules, platform, intent) ==
    LET p == Upper(platform) IN
    IF ~Has(rules, p)
    THEN Exc("ValueError", "Platform " \o p \o " not found")
    ELSE IF ~Has(rules.d[p], intent)
    THEN Exc("ValueError", "Intent " \o intent \o " not found for platform " \o p)
    ELSE IF ~Has(rules.d[p], "DEFAULT")
    THEN Exc("KeyError", "'DEFAULT'")
    ELSE LET merged == deep_merge(rules.d[p].d["DEFAULT"], rules.d[p].d[intent])
         IN Dict(("_meta" :> Dict("platform" :> Str(p) @@ "intent" :> Str(intent)))
                 @@ merged.d)

\* ------------------------------------------------------------------
\* normalize_plan
\* ------------------------------------------------------------------
NoGet == Exc("AttributeError", "object has no attribute 'get'")

\* the dict both variants of normalize_plan return
normalized(raw, media, text, allowed_types, selected_type) ==
    Dict("platform" :> Get(raw, "platform", None) @@
         "content_type" :> Get(raw, "content_type", None) @@
         "objective" :> Get(raw, "objective", None) @@
         "tone" :> Get(raw, "tone", None) @@
         "text_constraints" :> text @@
         "media_constraints" :> Dict(
             "allowed_types" :> allowed_types @@
             "selected_type" :> selected_type @@
             "raw" :> media @@
             "image" :> Get(media, "image", EmptyDict) @@
             "video" :> Get(media, "video", EmptyDict) @@
             "image_count" :> Get(media, "image_count", None) @@
             "aspect_ratio" :> Get(media, "aspect_ratio", None) @@
             "safe_zone_required" :> Get(media, "safe_zone_required", Bool(FALSE)) @@
             "ugc_style" :> Get(media, "ugc_style", Bool(FALSE)) @@
             "supports_audio" :> Get(media, "supports_audio", Bool(FALSE)) @@
             "recommended_use_cases" :> Get(media, "recommended_use_cases", EmptyList)) @@
         "cta_style" :> Get(raw, "cta_style", None) @@
         "optimization_goal" :> Get(raw, "optimization_goal", None) @@
         "variation_count" :> Get(raw, "variation_count", None) @@
         "_meta" :> Get(raw, "_meta", None))

\* content_orchestration.py
allowed_types_of(raw_type) ==
    IF raw_type = Str("optional") THEN List(<<Str("image"), Str("video")>>)
    ELSE IF raw_type = Str("image_or_short_video") THEN List(<<Str("image"), Str("video")>>)
    ELSE IF raw_type \in {Str("image"), Str("video"), Str("photo_carousel"), Str("text_only")}
    THEN List(<<raw_type>>)
    ELSE EmptyList

\* select_type falling back to the last allowed type
select_type_LastAllowed(raw_type, allowed_types, user_media_choice) ==
    LET selected_type == IF InList(user_media_choice, allowed_types)
                         THEN user_media_choice ELSE None
    IN IF ~Truthy(selected_type) /\ Truthy(allowed_types)
       THEN allowed_types.l[Len(allowed_types.l)]
       ELSE selected_type

select_type(raw_type, allowed_types, user_media_choice) ==
    LET selected_type == IF InList(user_media_choice, allowed_types)
                         THEN user_media_choice ELSE None
    IN IF ~Truthy(selected_type) /\ Truthy(allowed_types)
       THEN IF InList(raw_type, allowed_types) THEN raw_type ELSE allowed_types.l[1]
       ELSE selected_type

normalize_plan(raw, user_media_choice) ==
    LET media == Get(raw, "media_constraints", EmptyDict)
        text == Get(raw, "text_constraints", EmptyDict)
    IN IF ~IsDict(media) THEN NoGet
       ELSE LET raw_type == Get(media, "type", None)
                allowed_types == allowed_types_of(raw_type)
            IN normalized(raw, media, text, allowed_types,
                          select_type(raw_type, allowed_types, user_media_choice))

\* allowed_types_of_fal letting any other type name through
allowed_types_of_fal_AnyType(raw_type) ==
    IF raw_type \in {Str("optional"), Str("image_or_short_video")}
    THEN List(<<Str("image"), Str("video")>>)
    ELSE IF raw_type.t = "str" THEN List(<<raw_type>>)
    ELSE EmptyList

\* content_orchestrationfal.py
allowed_types_of_fal(raw_type) ==
    IF raw_type \in {Str("optional"), Str("image_or_short_video")}
    THEN List(<<Str("image"), Str("video")>>)
    ELSE IF raw_type \in {Str("video"), Str("photo_carousel"), Str("text_only")}
    THEN List(<<raw_type>>)
    ELSE EmptyList

\* select_type_fal ignoring the user's choice
select_type_fal_IgnoreChoice(allowed_types, user_media_choice) ==
    IF Truthy(allowed_types) THEN allowed_types.l[1] ELSE None

select_type_fal(allowed_types, user_media_choice) ==
    IF InList(user_media_choice, allowed_types) THEN user_media_choice
    ELSE IF Truthy(allowed_types) THEN allowed_types.l[1] ELSE None

normalize_plan_fal(raw, user_media_choice) ==
    LET media == Get(raw, "media_constraints", EmptyDict)
        text == Get(raw, "text_constraints", EmptyDict)
    IN IF ~IsDict(media) THEN NoGet
       ELSE LET raw_type == Get(media, "type", None)
                allowed_types == allowed_types_of_fal(raw_type)
            IN normalized(raw, media, text, allowed_types,
                          select_type_fal(allowed_types, user_media_choice))

\* ------------------------------------------------------------------
\* Prompt templates (rendered text, shortened line by line)
\* ------------------------------------------------------------------
StartsWith(s, prefix) == Len(s) >= Len(prefix) /\ SubSeq(s, 1, Len(prefix)) = prefix

\* jinja2 attribute lookup: a missing attribute is Undefined (falsy, renders empty)
Attr(v, k) == IF IsDict(v) /\ Has(v, k) THEN v.d[k] ELSE None
Render(v) == IF v = None THEN "" ELSE ToStr(v)

build_text_prompt(plan) ==
    LET tc == plan.d["text_constraints"] IN
    "SYSTEM: copywriter for " \o ToStr(plan.d["platform"]) \o " " \o ToStr(plan.d["content_type"])
    \o "; measured by " \o ToStr(plan.d["objective"])
    \o (IF Truthy(Attr(tc, "min_chars")) /\ Truthy(Attr(tc, "max_chars"))
        THEN "; between " \o Render(Attr(tc, "min_chars")) \o " and "
             \o Render(Attr(tc, "max_chars")) \o " characters"
        ELSE IF Truthy(Attr(tc, "max_chars"))
        THEN "; must not exceed " \o Render(Attr(tc, "max_chars")) \o " characters"
        ELSE "")
    \o "; tone " \o ToStr(plan.d["tone"])
    \o "; FINAL OUTPUT: only the final post text"

\* the part of MEDIA_PROMPT_TEMPLATE both variants share
media_prompt_body(plan, media_type) ==
    LET mc == plan.d["media_constraints"] IN
    "SYSTEM: creative director for " \o ToStr(plan.d["platform"])
    \o "; MEDIA TYPE: " \o ToStr(media_type)
    \o (IF media_type = Str("image")
        THEN "; Aspect ratio: " \o Render(Attr(Attr(mc, "image"), "aspect_ratio"))
        ELSE "")
    \o (IF media_type = Str("video") /\ Truthy(Attr(Attr(mc, "video"), "max_duration_sec"))
        THEN "; Max duration: " \o Render(Attr(Attr(mc, "video"), "max_duration_sec"))
        ELSE "")
    \o (IF media_type = Str("photo_carousel")
        THEN "; multi-image carousel"
             \o (IF Truthy(Attr(mc, "image_count"))
                 THEN "; images: between " \o Render(Attr(Attr(mc, "image_count"), "min"))
                      \o " and " \o Render(Attr(Attr(mc, "image_count"), "max"))
                 ELSE "")
        ELSE "")

\* content_orchestration.py
build_media_prompt(plan) ==
    LET media_type == Get(plan.d["media_constraints"], "selected_type", None) IN
    IF ~Truthy(media_type) \/ media_type = Str("text_only") THEN None
    ELSE Str(media_prompt_body(plan, media_type)
             \o "; FINAL OUTPUT: only a visual description for the " \o ToStr(media_type))

\* content_orchestrationfal.py
build_media_prompt_fal(plan) ==
    LET media_type == plan.d["media_constraints"].d["selected_type"] IN
    IF ~Truthy(media_type) \/ media_type = Str("text_only") THEN None
    ELSE Str(media_prompt_body(plan, media_type)
             \o "; FINAL OUTPUT: only the generated " \o ToStr(media_type))

build_text_user_data_block(user_inputs) ==
    "USER PROVIDED DATA; CONTENT IDEA: " \o ToStr(Get(user_inputs, "content_idea", None))
    \o "; DESCRIPTION: " \o ToStr(Get(user_inputs, "description", None))
    \o "; REFERENCE TEXT: " \o ToStr(Get(user_inputs, "reference_text", None))

build_media_user_data_block(user_inputs, uploaded_files) ==
    "USER PROVIDED DATA; CORE IDEA: " \o ToStr(Get(user_inputs, "content_idea", None))
    \o "; DESCRIPTION: " \o ToStr(Get(user_inputs, "description", None))
    \o (IF Truthy(Get(uploaded_files, "reference_image", None))
        THEN "; VISUAL REFERENCE: use the attached image(s)" ELSE "")
    \o (IF Truthy(Get(uploaded_files, "video_init_image", None))
        THEN "; INITIAL FRAME: use the attached image" ELSE "")

\* ------------------------------------------------------------------
\* build_final_model_input
\* ------------------------------------------------------------------
\* payload_media_constraints without the "supports_audio" entry
payload_media_constraints_NoAudio(media_constraints, selected_type) ==
    Dict("allowed_types" :> Get(media_constraints, "allowed_types", EmptyList) @@
         "selected_type" :> selected_type @@
         "image" :> Get(media_constraints, "image", None) @@
         "video" :> Get(media_constraints, "video", None) @@
         "image_count" :> Get(media_constraints, "image_count", None) @@
         "aspect_ratio" :> Get(media_constraints, "aspect_ratio", None) @@
         "safe_zone_required" :> Get(media_constraints, "safe_zone_required", Bool(FALSE)) @@
         "ugc_style" :> Get(media_constraints, "ugc_style", Bool(FALSE)) @@
         "recommended_use_cases" :> Get(media_constraints, "recommended_use_cases", EmptyList))

\* content_orchestration.py: the "media_constraints" entry of media_payload
payload_media_constraints(media_constraints, selected_type) ==
    Dict("allowed_types" :> Get(media_constraints, "allowed_types", EmptyList) @@
         "selected_type" :> selected_type @@
         "image" :> Get(media_constraints, "image", None) @@
         "video" :> Get(media_constraints, "video", None) @@
         "image_count" :> Get(media_constraints, "image_count", None) @@
         "aspect_ratio" :> Get(media_constraints, "aspect_ratio", None) @@
         "safe_zone_required" :> Get(media_constraints, "safe_zone_required", Bool(FALSE)) @@
         "ugc_style" :> Get(media_constraints, "ugc_style", Bool(FALSE)) @@
         "supports_audio" :> Get(media_constraints, "supports_audio", Bool(FALSE)) @@
         "recommended_use_cases" :> Get(media_constraints, "recommended_use_cases", EmptyList))

\* content_orchestration.py
build_final_model_input(plan, user_inputs, uploaded_files) ==
    LET text_prompt == build_text_prompt(plan)
        media_prompt == build_media_prompt(plan)
        text_user_data == build_text_user_data_block(user_inputs)
        media_user_data == build_media_user_data_block(user_inputs, uploaded_files)
        media_constraints == Get(plan, "media_constraints", EmptyDict)
        selected_type == Get(media_constraints, "selected_type", None)
        media_payload == Dict(
            "media_model_input" :> (IF Truthy(media_prompt)
                                    THEN Str(media_prompt.s \o " | " \o media_user_data)
                                    ELSE None) @@
            "media_type" :> selected_type @@
            "media_constraints" :> payload_media_constraints(media_constraints, selected_type) @@
            "reference_image" :> Get(uploaded_files, "reference_image", None) @@
            "video_init_image" :> Get(uploaded_files, "video_init_image", None))
    IN Dict("text_model_input" :> Str(text_prompt \o " | " \o text_user_data) @@
            "media_payload" :> media_payload @@
            "generation_plan" :> plan)

\* build_final_model_input_fal handing over only the file of the selected type
build_final_model_input_fal_TypedFiles(plan, user_inputs, uploaded_files) ==
    LET media_prompt == build_media_prompt_fal(plan)
        selected == plan.d["media_constraints"].d["selected_type"]
    IN Dict("text_model_input" :> Str(build_text_prompt(plan) \o " | "
                                      \o build_text_user_data_block(user_inputs)) @@
            "media_model_input" :> (IF Truthy(media_prompt)
                                    THEN Str(media_prompt.s \o " | "
                                         \o build_media_user_data_block(user_inputs, uploaded_files))
                                    ELSE None) @@
            "media_payload" :> Dict(
                "reference_image" :> (IF selected = Str("video") THEN None
                                      ELSE Get(uploaded_files, "reference_image", None)) @@
                "video_init_image" :> (IF selected = Str("video")
                                       THEN Get(uploaded_files, "video_init_image", None)
                                       ELSE None)) @@
            "generation_plan" :> plan)

\* content_orchestrationfal.py
build_final_model_input_fal(plan, user_inputs, uploaded_files) ==
    LET text_prompt == build_text_prompt(plan)
        media_prompt == build_media_prompt_fal(plan)
        text_user_data == build_text_user_data_block(user_inputs)
        media_user_data == build_media_user_data_block(user_inputs, uploaded_files)
    IN Dict("text_model_input" :> Str(text_prompt \o " | " \o text_user_data) @@
            "media_model_input" :> (IF Truthy(media_prompt)
                                    THEN Str(media_prompt.s \o " | " \o media_user_data)
                                    ELSE None) @@
            "media_payload" :> Dict(
                "reference_image" :> Get(uploaded_files, "reference_image", None) @@
                "video_init_image" :> Get(uploaded_files, "video_init_image", None)) @@
            "generation_plan" :> plan)

\* ------------------------------------------------------------------
\* External generation APIs and their wrappers
\* ------------------------------------------------------------------
\* str.strip()
RECURSIVE Strip(_)
Strip(s) ==
    IF Len(s) = 0 THEN s
    ELSE IF SubSeq(s, 1, 1) = " " THEN Strip(SubSeq(s, 2, Len(s)))
    ELSE IF SubSeq(s, Len(s), Len(s)) = " " THEN Strip(SubSeq(s, 1, Len(s) - 1))
    ELSE s

\* what the Gemini service may answer to one generate_content request
GeminiReplies ==
    { [kind |-> "text", text |-> " Fresh copy "],
      [kind |-> "text", text |-> "  "],
      [kind |-> "raise", msg |-> "quota exceeded"] }

\* what the image / video service may answer to one request
MediaReplies ==
    { [kind |-> "url", url |-> "https://cdn/out"],
      [kind |-> "other", repr |-> "{}"],
      [kind |-> "raise", msg |-> "timeout"] }

\* paths for which os.path.exists is true
ExistingPaths == {"frame.png", "ref.png"}

\* one request sent to an external service
ApiCall(service, input) == [service |-> service, input |-> input]

\* generate_text_with_gemini with a second attempt after a failed request
generate_text_with_gemini_Retry(prompt, reply) ==
    [ret |-> IF reply.kind = "text" THEN Str(Strip(reply.text))
             ELSE Str("Error generating text with Gemini: " \o reply.msg),
     api |-> IF reply.kind = "raise"
             THEN <<ApiCall("gemini", Dict("contents" :> prompt)),
                    ApiCall("gemini", Dict("contents" :> prompt))>>
             ELSE <<ApiCall("gemini", Dict("contents" :> prompt))>>]

\* every wrapper yields the value it returns (or the exception it lets
\* escape) and the requests it sent
Outcome(ret, api) == [ret |-> ret, api |-> api]

generate_text_with_gemini(prompt, reply) ==
    Outcome(IF reply.kind = "text" THEN Str(Strip(reply.text))
            ELSE Str("Error generating text with Gemini: " \o reply.msg),
            <<ApiCall("gemini", Dict("contents" :> prompt))>>)

generate_image_with_replicate(prompt, reference_image, reply) ==
    LET input_params == Dict("prompt" :> prompt) IN
    Outcome(CASE reply.kind = "url" -> Str(reply.url)
              [] reply.kind = "other" -> Str(reply.repr)
              [] reply.kind = "raise" -> Str("Error generating image: " \o reply.msg),
            <<ApiCall("replicate/flux-schnell", input_params)>>)

\* generate_video_with_replicate letting the service's exception escape
generate_video_with_replicate_Reraise(prompt, init_image, reply) ==
    Outcome(CASE reply.kind = "url" -> Str(reply.url)
              [] reply.kind = "other" -> Str(reply.repr)
              [] reply.kind = "raise" -> Exc("ReplicateError", reply.msg),
            <<ApiCall("replicate/ltx-video",
                      Dict("prompt" :> prompt @@ "aspect_ratio" :> Str("16:9") @@
                           "model" :> Str("0.9.1")))>>)

generate_video_with_replicate(prompt, init_image, reply) ==
    LET base == "prompt" :> prompt @@ "aspect_ratio" :> Str("16:9") @@ "model" :> Str("0.9.1")
        input_params ==
            IF Truthy(init_image)
            THEN IF StartsWith(init_image.s, "http")
                 THEN Dict("image" :> init_image @@ base)
                 ELSE IF init_image.s \in ExistingPaths
                 THEN Dict("image" :> [t |-> "file", path |-> init_image.s] @@ base)
                 ELSE Dict(base)
            ELSE Dict(base)
    IN Outcome(CASE reply.kind = "url" -> Str(reply.url)
                 [] reply.kind = "other" -> Str(reply.repr)
                 [] reply.kind = "raise" -> Str("Error generating video: " \o reply.msg),
               <<ApiCall("replicate/ltx-video", input_params)>>)

generate_image_with_fal(prompt, constraints, reference_image, reply) ==
    LET base == "prompt" :> prompt @@ "output_format" :> Str("png") @@
                "width" :> Get(constraints, "width", Num(1024)) @@
                "height" :> Get(constraints, "height", Num(1024))
        arguments == IF Truthy(reference_image)
                     THEN Dict("image_input" :> List(<<reference_image>>) @@ base)
                     ELSE Dict(base)
    IN Outcome(CASE reply.kind = "url" -> Str(reply.url)
                 [] reply.kind = "other" -> Str(reply.repr)
                 [] reply.kind = "raise" -> Str("Error generating image with fal.ai: " \o reply.msg),
               <<ApiCall("fal-ai/nano-banana", arguments)>>)

generate_video_with_fal(prompt, constraints, init_image, reply) ==
    LET base == "prompt" :> prompt @@
                "duration" :> Get(constraints, "max_duration_sec", Num(8)) @@
                "resolution" :> Get(constraints, "resolution", Str("1080p")) @@
                "aspect_ratio" :> Get(constraints, "aspect_ratio", Str("16:9")) @@
                "generate_audio" :> Get(constraints, "supports_audio", Bool(TRUE))
        arguments == IF Truthy(init_image)
                     THEN Dict("image" :> init_image @@ base)
                     ELSE Dict(base)
    IN Outcome(CASE reply.kind = "url" -> Str(reply.url)
                 [] reply.kind = "other" -> Str(reply.repr)
                 [] reply.kind = "raise" -> Str("Error generating video with fal.ai: " \o reply.msg),
               <<ApiCall("fal-ai/veo3", arguments)>>)

\* ------------------------------------------------------------------
\* LangGraph nodes (content_orchestrationfal.py)
\* A node maps the state to a partial update and to the wrapper calls it
\* made; the graph writes the update over the state (no reducers).
\* ------------------------------------------------------------------
\* one wrapper invocation, as observed from outside
Invocation(by, fn, reply, out) ==
    [by |-> by, fn |-> fn, reply |-> reply, ret |-> out.ret, api |-> out.api]

NodeResult(update, made) == [update |-> update, made |-> made]

\* a failure branch that reports only its own message
Failed_Reset(st, who, msg) ==
    NodeResult("errors" :> List(<<Str(who \o " failed: " \o msg)>>) @@
               "status" :> Str("failed"), <<>>)

\* state.get("errors", []) + [f"<who> failed: {str(e)}"], status "failed"
Failed(st, who, msg) ==
    LET errors == IF "errors" \in DOMAIN st THEN st["errors"] ELSE EmptyList
    IN NodeResult("errors" :> List(Append(errors.l, Str(who \o " failed: " \o msg))) @@
                  "status" :> Str("failed"), <<>>)

planner_node(st, fsv) ==
    LET raw_plan == build_generation_plan(load_platform_rules(fsv),
                                          st["platform"].s, st["intent"].s)
        plan == normalize_plan_fal(raw_plan, st["user_media_choice"])
    IN IF IsExc(raw_plan) THEN Failed(st, "Planner", raw_plan.msg)
       ELSE IF IsExc(plan) THEN Failed(st, "Planner", plan.msg)
       ELSE NodeResult("generation_plan" :> plan @@
                       "status" :> Str("plan_generated") @@
                       "errors" :> EmptyList, <<>>)

prompt_engineer_node(st) ==
    IF "generation_plan" \notin DOMAIN st
    THEN Failed(st, "Prompt Engineer", "'generation_plan'")
    ELSE LET final_input == build_final_model_input_fal(st["generation_plan"],
                                st["user_inputs"], st["uploaded_files"])
         IN NodeResult("text_model_input" :> final_input.d["text_model_input"] @@
                       "media_payload" :> Get(final_input, "media_payload", EmptyDict) @@
                       "visual_prompt" :> Get(final_input, "media_model_input", None) @@
                       "status" :> Str("prompts_engineered") @@
                       "errors" :> EmptyList, <<>>)

copywriter_node(st, reply) ==
    IF ~("text_model_input" \in DOMAIN st /\ Truthy(st["text_model_input"]))
    THEN Failed(st, "Copywriter", "Text model input missing.")
    ELSE LET out == generate_text_with_gemini(st["text_model_input"], reply)
         IN NodeResult("generated_text" :> out.ret @@
                       "status" :> Str("text_generated") @@
                       "errors" :> EmptyList,
                       <<Invocation("copywriter", "generate_text_with_gemini", reply, out)>>)

\* f"Based on this social media post: '{text}', create a detailed visual
\* prompt for an {media_type} generation. ..."
visual_prompt_request(text, media_type) ==
    Str("Based on this social media post: '" \o ToStr(text)
        \o "', create a detailed visual prompt for an " \o ToStr(media_type)
        \o " generation.")

visual_refiner_node(st, reply) ==
    IF "generation_plan" \notin DOMAIN st
    THEN Failed(st, "Visual Refiner", "'generation_plan'")
    ELSE LET media_type == Get(st["generation_plan"].d["media_constraints"],
                               "selected_type", None)
         IN IF ~Truthy(media_type) \/ media_type = Str("text_only")
            THEN NodeResult("visual_prompt" :> None @@
                            "status" :> Str("visual_refiner_skipped") @@
                            "errors" :> EmptyList, <<>>)
            ELSE IF ~("generated_text" \in DOMAIN st /\ Truthy(st["generated_text"]))
            THEN Failed(st, "Visual Refiner",
                        "Generated text missing for media prompt refinement.")
            ELSE LET out == generate_text_with_gemini(
                                visual_prompt_request(st["generated_text"], media_type), reply)
                 IN NodeResult("visual_prompt" :> out.ret @@
                               "status" :> Str("visual_prompt_refined") @@
                               "errors" :> EmptyList,
                               <<Invocation("visual_refiner", "generate_text_with_gemini",
                                            reply, out)>>)

\* min_images of the carousel branch
min_images_of(image_count_constraints) ==
    IF IsDict(image_count_constraints)
    THEN Get(image_count_constraints, "min", Num(1)).n
    ELSE 1

\* len(range(n))
Range(n) == IF n < 0 THEN 0 ELSE n

SlidePrompt(visual_prompt, i) == Str(visual_prompt.s \o " - Slide " \o ToString(i))

media_producer_node(st, replies) ==
    IF "generation_plan" \notin DOMAIN st
    THEN Failed(st, "Media Producer", "'generation_plan'")
    ELSE LET constraints == st["generation_plan"].d["media_constraints"]
             media_type == Get(constraints, "selected_type", None)
             ref == Get(st["uploaded_files"], "reference_image", None)
             init == Get(st["uploaded_files"], "video_init_image", None)
         IN IF ~Truthy(media_type) \/ media_type = Str("text_only")
            THEN NodeResult("generated_media_url" :> None @@
                            "status" :> Str("media_producer_skipped") @@
                            "errors" :> EmptyList, <<>>)
            ELSE IF ~("visual_prompt" \in DOMAIN st /\ Truthy(st["visual_prompt"]))
            THEN Failed(st, "Media Producer", "Visual prompt missing for media generation.")
            ELSE LET made ==
                         IF media_type = Str("image")
                         THEN <<Invocation("media_producer", "generate_image_with_fal", replies[1],
                                    generate_image_with_fal(st["visual_prompt"],
                                        Get(constraints, "image", EmptyDict), ref, replies[1]))>>
                         ELSE IF media_type = Str("video")
                         THEN <<Invocation("media_producer", "generate_video_with_fal", replies[1],
                                    generate_video_with_fal(st["visual_prompt"],
                                        Get(constraints, "video", EmptyDict), init, replies[1]))>>
                         ELSE IF media_type = Str("photo_carousel")
                         THEN [i \in 1..Range(min_images_of(Get(constraints, "image_count", EmptyDict))) |->
                                  Invocation("media_producer", "generate_image_with_fal", replies[i],
                                      generate_image_with_fal(SlidePrompt(st["visual_prompt"], i),
                                          Get(constraints, "image", EmptyDict), ref, replies[i]))]
                         ELSE <<>>
                     media_result ==
                         IF media_type \in {Str("image"), Str("video")} THEN made[1].ret
                         ELSE IF media_type = Str("photo_carousel")
                         THEN List([i \in 1..Len(made) |-> made[i].ret])
                         ELSE None
                 IN NodeResult("generated_media_url" :> media_result @@
                               "status" :> Str("media_produced") @@
                               "errors" :> EmptyList, made)

\* ------------------------------------------------------------------
\* orchestrate_content_generation (content_orchestration.py), step by step;
\* `st` holds the arguments and the locals assigned so far
\* ------------------------------------------------------------------
\* a step yields new locals, the wrapper calls made, and either the value
\* returned / exception raised by the function or None while it goes on
StepResult(locals, made, ret) == [locals |-> locals, made |-> made, ret |-> ret]

\* steps 1 and 2: build and normalize the plan, build the model inputs
orchestrate_plan(st, fsv) ==
    LET raw_plan == build_generation_plan(load_platform_rules(fsv),
                                          st["platform"].s, st["intent"].s)
    IN IF IsExc(raw_plan) THEN StepResult(EmptyMap, <<>>, raw_plan)
       ELSE LET plan == normalize_plan(raw_plan, st["user_media_choice"])
            IN IF IsExc(plan) THEN StepResult(EmptyMap, <<>>, plan)
               ELSE StepResult("generation_plan" :> plan @@
                               "final_input" :> build_final_model_input(
                                    plan, st["user_inputs"], st["uploaded_files"]),
                               <<>>, None)

\* orchestrate_text without the early return
orchestrate_text_NoEarlyReturn(st, reply) ==
    LET out == generate_text_with_gemini(st["final_input"].d["text_model_input"], reply)
    IN StepResult("post_text" :> out.ret @@
                  "media_type" :> st["final_input"].d["media_payload"].d["media_type"],
                  <<Invocation("orchestrate", "generate_text_with_gemini", reply, out)>>,
                  None)

\* step 3: generate the text; return early when no media is selected
orchestrate_text(st, reply) ==
    LET out == generate_text_with_gemini(st["final_input"].d["text_model_input"], reply)
        media_type == st["final_input"].d["media_payload"].d["media_type"]
    IN StepResult("post_text" :> out.ret @@ "media_type" :> media_type,
                  <<Invocation("orchestrate", "generate_text_with_gemini", reply, out)>>,
                  IF ~Truthy(media_type) \/ media_type = Str("text_only")
                  THEN Dict("text" :> out.ret @@ "media" :> None)
                  ELSE None)

\* step 4a: refine the visual prompt from the generated text
orchestrate_visual(st, reply) ==
    LET out == generate_text_with_gemini(
                   visual_prompt_request(st["post_text"], st["media_type"]), reply)
    IN StepResult("visual_prompt" :> out.ret,
                  <<Invocation("orchestrate", "generate_text_with_gemini", reply, out)>>,
                  None)

\* the wrapper calls of step 4b
orchestrate_media_calls(st, replies) ==
    LET payload == st["final_input"].d["media_payload"]
        ref == Get(payload, "reference_image", None)
        init == Get(payload, "video_init_image", None)
    IN IF st["media_type"] = Str("image")
       THEN <<Invocation("orchestrate", "generate_image_with_replicate", replies[1],
                  generate_image_with_replicate(st["visual_prompt"], ref, replies[1]))>>
       ELSE IF st["media_type"] = Str("video")
       THEN <<Invocation("orchestrate", "generate_video_with_replicate", replies[1],
                  generate_video_with_replicate(st["visual_prompt"], init, replies[1]))>>
       ELSE IF st["media_type"] = Str("photo_carousel")
       THEN [i \in 1..Range(min_images_of(Get(st["generation_plan"].d["media_constraints"],
                                              "image_count", EmptyDict))) |->
                Invocation("orchestrate", "generate_image_with_replicate", replies[i],
                    generate_image_with_replicate(SlidePrompt(st["visual_prompt"], i),
                                                  ref, replies[i]))]
       ELSE <<>>

\* step 4b: generate the media and return
orchestrate_media(st, made) ==
    StepResult(EmptyMap, made,
        Dict("text" :> st["post_text"] @@
             "media" :> (IF st["media_type"] \in {Str("image"), Str("video")}
                         THEN made[1].ret
                         ELSE IF st["media_type"] = Str("photo_carousel")
                         THEN List([i \in 1..Len(made) |-> made[i].ret])
                         ELSE None)))

\* ------------------------------------------------------------------
\* Inputs of the model
\* ------------------------------------------------------------------
BaseRules ==
    "content_type" :> Str("post") @@ "objective" :> Str("engagement") @@
    "tone" :> Str("professional") @@
    "text_constraints" :> Dict("max_chars" :> Num(280))

\* DEFAULT entries of a platform
DefaultRules ==
    { Dict(BaseRules),
      Dict("media_constraints" :> Dict("type" :> Str("optional") @@
                                       "image" :> Dict("aspect_ratio" :> Str("1:1")) @@
                                       "image_count" :> Dict("min" :> Num(1) @@ "max" :> Num(4)))
           @@ BaseRules) }

\* intent entries of a platform
IntentRules ==
    { EmptyDict,
      Dict("objective" :> Str("conversion")),
      Dict("tone" :> Str("playful") @@ "text_constraints" :> Dict("min_chars" :> Num(50))),
      Dict("media_constraints" :> Str("none")),
      Dict("media_constraints" :> Dict("type" :> Str("photo_carousel") @@
                                       "image_count" :> Num(3))) }
    \cup { Dict("media_constraints" :> Dict("type" :> Str(ty))) :
              ty \in {"image_or_short_video", "image", "video", "photo_carousel",
                      "text_only", "gif"} }
    \cup { Dict("media_constraints" :> Dict("type" :> Str("photo_carousel") @@
                                            "image_count" :> Dict("min" :> Num(n)))) :
              n \in 0..MaxMinImages }

\* contents of platform_rules_config.json; None when the file does not exist
ConfigFiles ==
    { Dict("PLATFORM_RULES" :> Dict("X" :> Dict("DEFAULT" :> d @@ "PROMO" :> i))) :
          d \in DefaultRules, i \in IntentRules }
    \cup { Dict("PLATFORM_RULES" :> Dict(
               "X" :> Dict("DEFAULT" :> Dict(BaseRules)) @@
               "TIKTOK" :> Dict("PROMO" :> Dict("tone" :> Str("playful"))))),
           None }

Platforms == {"x", "TIKTOK"}
Intents == {"DEFAULT", "PROMO", "promo"}
MediaChoices == {None, Str("image"), Str("video"), Str("photo_carousel")}

UserInputs ==
    Dict("content_idea" :> Str("ads about chipsy") @@
         "description" :> Str("Crunch into happiness!") @@
         "reference_text" :> Str("Informative and visionary."))

UploadedFiles ==
    { Dict("reference_image" :> None @@ "video_init_image" :> None),
      Dict("reference_image" :> Str("ref.png") @@ "video_init_image" :> None),
      Dict("reference_image" :> Str("ref.png") @@ "video_init_image" :> Str("frame.png")),
      Dict("video_init_image" :> Str("http://cdn/frame.png")),
      Dict("video_init_image" :> Str("missing.png")) }

\* raw plans handed to normalize_plan directly
RawPlans ==
    { EmptyDict,
      Dict("tone" :> Str("professional")),
      Dict("text_constraints" :> Dict("max_chars" :> Num(280))),
      Dict("media_constraints" :> EmptyDict) }
    \cup { Dict("media_constraints" :> Dict("type" :> Str(ty))) :
              ty \in {"optional", "image", "video", "text_only", "gif"} }

\* replies kept ready for the image / video requests of one run
MaxReplies == IF MaxMinImages > 1 THEN MaxMinImages ELSE 1
ReplySeqs == [1..MaxReplies -> MediaReplies]

Nodes == <<"planner", "prompt_engineer", "copywriter", "visual_refiner", "media_producer">>

\* ------------------------------------------------------------------
\* State
\* ------------------------------------------------------------------
VARIABLES
    prog,     \* "workflow" (LangGraph app behind /generate), "orchestrate", or
              \* "normalize" (a direct call of normalize_plan)
    fs,       \* contents of platform_rules_config.json, None when missing
    state,    \* workflow: the AgentState dict; orchestrate: arguments and locals;
              \* normalize: the arguments and the plan returned
    pc,       \* workflow: next node, "END" or "responded";
              \* orchestrate: "plan", "text", "visual", "media", "returned", "raised";
              \* normalize: "normalize", "normalized", "raised"
    trace,    \* nodes (workflow) or steps (orchestrate) executed so far, in order
    calls,    \* wrapper invocations made so far, in order
    result,   \* /generate response body, or orchestrate's return value / exception
    raw_plan  \* local raw_plan of planner_node / orchestrate_content_generation:
              \* what build_generation_plan returned or raised, None before the call

vars == <<prog, fs, state, pc, trace, calls, result, raw_plan>>

\* a direct call of normalize_plan on a raw plan
InitNormalize ==
    /\ prog = "normalize"
    /\ fs = None
    /\ \E raw \in RawPlans, user_media_choice \in MediaChoices :
          state = "raw" :> raw @@ "user_media_choice" :> user_media_choice
    /\ pc = "normalize"
    /\ trace = <<>>
    /\ calls = <<>>
    /\ result = None
    /\ raw_plan = None

\* a run of the workflow or of orchestrate_content_generation
InitRun ==
    /\ prog \in {"workflow", "orchestrate"}
    /\ fs \in ConfigFiles
    /\ \E platform \in Platforms, intent \in Intents,
          uploaded_files \in UploadedFiles, user_media_choice \in MediaChoices :
          LET args == "platform" :> Str(platform) @@ "intent" :> Str(intent) @@
                      "user_inputs" :> UserInputs @@
                      "uploaded_files" :> uploaded_files @@
                      "user_media_choice" :> user_media_choice
          IN state = IF prog = "workflow" THEN args @@ "errors" :> EmptyList ELSE args
    /\ pc = IF prog = "workflow" THEN "planner" ELSE "plan"
    /\ trace = <<>>
    /\ calls = <<>>
    /\ result = None
    /\ raw_plan = None

Init == InitRun \/ InitNormalize

\* RunNode with a conditional edge that leaves the graph after a failure
RunNode_AbortOnFailure(name, next, res) ==
    /\ prog = "workflow"
    /\ pc = name
    /\ state' = res.update @@ state
    /\ calls' = calls \o res.made
    /\ trace' = Append(trace, name)
    /\ pc' = IF res.update["status"] = Str("failed") THEN "END" ELSE next
    /\ UNCHANGED <<prog, result>>

\* the graph runs node `name`, merges its update and follows the edge to `next`
RunNode(name, next, res) ==
    /\ prog = "workflow"
    /\ pc = name
    /\ state' = res.update @@ state
    /\ calls' = calls \o res.made
    /\ trace' = Append(trace, name)
    /\ pc' = next
    /\ UNCHANGED <<prog, result>>

Planner ==
    /\ RunNode("planner", "prompt_engineer", planner_node(state, fs))
    /\ raw_plan' = build_generation_plan(load_platform_rules(fs),
                                         state["platform"].s, state["intent"].s)
    /\ fs' = load_platform_rules_fs(fs)

PromptEngineer ==
    /\ RunNode("prompt_engineer", "copywriter", prompt_engineer_node(state))
    /\ UNCHANGED <<fs, raw_plan>>

Copywriter ==
    /\ \E reply \in GeminiReplies :
          RunNode("copywriter", "visual_refiner", copywriter_node(state, reply))
    /\ UNCHANGED <<fs, raw_plan>>

VisualRefiner ==
    /\ \E reply \in GeminiReplies :
          RunNode("visual_refiner", "media_producer", visual_refiner_node(state, reply))
    /\ UNCHANGED <<fs, raw_plan>>

MediaProducer ==
    /\ \E replies \in ReplySeqs :
          RunNode("media_producer", "END", media_producer_node(state, replies))
    /\ UNCHANGED <<fs, raw_plan>>

\* main.generate_content after workflow_app.invoke returned
GenerateResponse ==
    /\ prog = "workflow"
    /\ pc = "END"
    /\ result' = Dict("status" :> Str("success") @@
                      "generated_text" :> (IF "generated_text" \in DOMAIN state
                                           THEN state["generated_text"] ELSE None) @@
                      "generated_media_url" :> (IF "generated_media_url" \in DOMAIN state
                                                THEN state["generated_media_url"] ELSE None) @@
                      "errors" :> (IF "errors" \in DOMAIN state
                                   THEN state["errors"] ELSE EmptyList))
    /\ pc' = "responded"
    /\ UNCHANGED <<prog, fs, state, trace, calls, raw_plan>>

\* orchestrate_content_generation advances by one step
RunStep(at, next, res) ==
    /\ prog = "orchestrate"
    /\ pc = at
    /\ state' = res.locals @@ state
    /\ calls' = calls \o res.made
    /\ trace' = Append(trace, at)
    /\ result' = res.ret
    /\ pc' = IF IsExc(res.ret) THEN "raised"
             ELSE IF res.ret # None THEN "returned"
             ELSE next
    /\ UNCHANGED prog

OrchestratePlan ==
    /\ RunStep("plan", "text", orchestrate_plan(state, fs))
    /\ raw_plan' = build_generation_plan(load_platform_rules(fs),
                                         state["platform"].s, state["intent"].s)
    /\ fs' = load_platform_rules_fs(fs)

OrchestrateText ==
    /\ \E reply \in GeminiReplies :
          RunStep("text", "visual", orchestrate_text(state, reply))
    /\ UNCHANGED <<fs, raw_plan>>

OrchestrateVisual ==
    /\ \E reply \in GeminiReplies :
          RunStep("visual", "media", orchestrate_visual(state, reply))
    /\ UNCHANGED <<fs, raw_plan>>

OrchestrateMedia ==
    /\ \E replies \in ReplySeqs :
          RunStep("media", "returned",
                  orchestrate_media(state, orchestrate_media_calls(state, replies)))
    /\ UNCHANGED <<fs, raw_plan>>

\* normalize_plan of either variant called on its own
Normalize ==
    /\ prog = "normalize"
    /\ pc = "normalize"
    /\ \E variant \in {"replicate", "fal"} :
          LET plan == IF variant = "fal"
                      THEN normalize_plan_fal(state["raw"], state["user_media_choice"])
                      ELSE normalize_plan(state["raw"], state["user_media_choice"])
          IN /\ state' = IF IsExc(plan) THEN state ELSE ("generation_plan" :> plan) @@ state
             /\ result' = plan
             /\ pc' = IF IsExc(plan) THEN "raised" ELSE "normalized"
    /\ trace' = Append(trace, "normalize")
    /\ UNCHANGED <<prog, fs, calls, raw_plan>>

Next ==
    \/ Planner
    \/ PromptEngineer
    \/ Copywriter
    \/ VisualRefiner
    \/ MediaProducer
    \/ GenerateResponse
    \/ OrchestratePlan
    \/ OrchestrateText
    \/ OrchestrateVisual
    \/ OrchestrateMedia
    \/ Normalize

Spec == Init /\ [][Next]_vars

TypeOK ==
    /\ prog \in {"workflow", "orchestrate", "normalize"}
    /\ pc \in {"planner", "prompt_engineer", "copywriter", "visual_refiner",
               "media_producer", "END", "responded",
               "plan", "text", "visual", "media", "returned", "raised",
               "normalize", "normalized"}

\* ------------------------------------------------------------------
\* Claims
\* ------------------------------------------------------------------
IsPrefix(s, t) == Len(s) <= Len(t) /\ s = SubSeq(t, 1, Len(s))

\* the next node of the linear graph after a run of `done` nodes
NextNode(done) == IF Len(done) < Len(Nodes) THEN Nodes[Len(done) + 1] ELSE "END"

\* C1: every invocation of the workflow executes planner, prompt_engineer,
\* copywriter, visual_refiner and media_producer exactly once each, in that
\* order, and then reaches END, whatever the nodes returned (status "failed"
\* included): the nodes executed so far are always an initial part of that
\* list, the node to run next is the one that follows them and is able to
\* run, and END is reached with exactly the whole list executed.
C1_LinearWorkflow ==
    prog = "workflow" =>
        /\ IsPrefix(trace, Nodes)
        /\ (pc \notin {"END", "responded"} => pc = NextNode(trace) /\ ENABLED Next)
        /\ (pc \in {"END", "responded"} <=> trace = Nodes)

\* a run in which the planner failed and still all five nodes ran to END
C1_Witness ==
    /\ prog = "workflow"
    /\ pc = "END"
    /\ trace = Nodes
    /\ state["status"] = Str("failed")
    /\ Len(state["errors"].l) > 0

\* number of requests that the wrapper calls made by node `by` sent
RECURSIVE RequestsIn(_, _)
RequestsIn(invs, by) ==
    IF invs = <<>> THEN 0
    ELSE (IF Head(invs).by = by THEN Len(Head(invs).api) ELSE 0) + RequestsIn(Tail(invs), by)

ApiCallsBy(by) == RequestsIn(calls, by)

\* the media type selected by the plan of a finished or running run
SelectedType == state["generation_plan"].d["media_constraints"].d["selected_type"]
NoMediaSelected == SelectedType = None \/ SelectedType = Str("text_only")

\* C2 as stated: in every run of the workflow each of the five nodes performs
\* exactly one external generation API call.
C2_OneCallPerNode ==
    (prog = "workflow" /\ pc = "END") =>
        \A i \in 1..Len(Nodes) : ApiCallsBy(Nodes[i]) = 1

\* the number of slides the plan asks for (image_count.min, 1 by default)
PlannedSlides ==
    LET ic == state["generation_plan"].d["media_constraints"].d["image_count"]
    IN IF ic.t = "dict" /\ "min" \in DOMAIN ic.d THEN ic.d["min"].n ELSE 1

\* C2 amended: planner and prompt_engineer send no request to a generation
\* API; copywriter sends exactly one when it was given a text prompt and none
\* otherwise; visual_refiner sends exactly one when a media type other than
\* text_only is selected and the generated text is not empty, and none
\* otherwise; media_producer sends none when no media is selected or the
\* visual prompt is missing, one for an image or a video, and one per slide
\* (image_count.min, 1 by default) for a photo carousel.
C2_CallsPerNode ==
    (prog = "workflow" /\ pc = "END") =>
        LET planned == "generation_plan" \in DOMAIN state
            media == planned /\ ~NoMediaSelected
        IN /\ ApiCallsBy("planner") = 0
           /\ ApiCallsBy("prompt_engineer") = 0
           /\ ApiCallsBy("copywriter") =
                 (IF "text_model_input" \in DOMAIN state THEN 1 ELSE 0)
           /\ ApiCallsBy("visual_refiner") =
                 (IF media /\ state["generated_text"] # Str("") THEN 1 ELSE 0)
           /\ ApiCallsBy("media_producer") =
                 (IF ~media \/ state["visual_prompt"] \in {None, Str("")} THEN 0
                  ELSE IF SelectedType \in {Str("image"), Str("video")} THEN 1
                  ELSE PlannedSlides)

\* a finished run whose media_producer sent two requests (a two-slide carousel)
C2_Witness ==
    /\ prog = "workflow"
    /\ pc = "END"
    /\ ApiCallsBy("copywriter") = 1
    /\ ApiCallsBy("visual_refiner") = 1
    /\ ApiCallsBy("media_producer") = 2

\* the rules the plan of this run was built from: the file as it is once
\* load_platform_rules has run
RulesRead == fs.d["PLATFORM_RULES"]
PlatformKey == Upper(state["platform"].s)
IntentKey == state["intent"].s
PlanBuilt == raw_plan # None

\* m is the key-by-key merge of the dicts base and override
RECURSIVE IsMergeOf(_, _, _)
IsMergeOf(m, base, override) ==
    /\ m.t = "dict"
    /\ DOMAIN m.d = DOMAIN base.d \cup DOMAIN override.d
    /\ \A k \in DOMAIN override.d :
          IF k \in DOMAIN base.d /\ base.d[k].t = "dict" /\ override.d[k].t = "dict"
          THEN IsMergeOf(m.d[k], base.d[k], override.d[k])
          ELSE m.d[k] = override.d[k]
    /\ \A k \in DOMAIN base.d \ DOMAIN override.d : m.d[k] = base.d[k]

\* a dict without its "_meta" entry
WithoutMeta(v) == Dict([k \in DOMAIN v.d \ {"_meta"} |-> v.d[k]])

\* C3: for every platform and intent present in the rules,
\* build_generation_plan returns the merge of the platform's DEFAULT rules
\* with the intent's rules: every key of the intent's rules has the intent's
\* value, every DEFAULT key absent from the intent's rules keeps its DEFAULT
\* value, and dicts under the same key are merged recursively by the same
\* rule (a dict versus a non-dict is replaced by the intent's value).
C3_PlanIsMerge ==
    (/\ PlanBuilt
     /\ PlatformKey \in DOMAIN RulesRead.d
     /\ IntentKey \in DOMAIN RulesRead.d[PlatformKey].d
     /\ "DEFAULT" \in DOMAIN RulesRead.d[PlatformKey].d)
    => IsMergeOf(WithoutMeta(raw_plan),
                 RulesRead.d[PlatformKey].d["DEFAULT"],
                 RulesRead.d[PlatformKey].d[IntentKey])

\* a plan in which media_constraints was merged recursively: "type" comes
\* from the intent, "image" is kept from DEFAULT
C3_Witness ==
    /\ PlanBuilt
    /\ raw_plan.t = "dict"
    /\ IntentKey = "PROMO"
    /\ "media_constraints" \in DOMAIN raw_plan.d
    /\ raw_plan.d["media_constraints"].t = "dict"
    /\ "type" \in DOMAIN raw_plan.d["media_constraints"].d
    /\ raw_plan.d["media_constraints"].d["type"] = Str("video")
    /\ "image" \in DOMAIN raw_plan.d["media_constraints"].d
    /\ raw_plan.d["tone"] = Str("professional")

\* the normalized plan of this run, once there is one
Planned == "generation_plan" \in DOMAIN state
AllowedTypes == state["generation_plan"].d["media_constraints"].d["allowed_types"]
UserChoice == state["user_media_choice"]

\* C4: whenever the plan's selected media type is None or "text_only", a
\* finished run (orchestrate_content_generation, or the workflow) has made
\* exactly one text-generation call, no visual-prompt refinement call and no
\* image/video call, and returns the post text with media equal to None.
C4_NoMediaRun ==
    (Planned /\ NoMediaSelected /\ pc \in {"END", "returned"}) =>
        /\ Len(calls) = 1
        /\ calls[1].fn = "generate_text_with_gemini"
        /\ Len(calls[1].api) = 1
        /\ calls[1].api[1].service = "gemini"
        /\ IF prog = "workflow"
           THEN /\ calls[1].by = "copywriter"
                /\ calls[1].api[1].input.d["contents"] = state["text_model_input"]
                /\ state["generated_text"] = calls[1].ret
                /\ state["visual_prompt"] = None
                /\ state["generated_media_url"] = None
           ELSE /\ calls[1].api[1].input.d["contents"]
                      = state["final_input"].d["text_model_input"]
                /\ result = Dict("text" :> calls[1].ret @@ "media" :> None)

\* orchestrate_content_generation returned for a text_only plan
C4_Witness ==
    /\ prog = "orchestrate"
    /\ pc = "returned"
    /\ Planned
    /\ SelectedType = Str("text_only")
    /\ Len(calls) = 1
    /\ result.d["media"] = None

\* C5: for every raw plan and every user_media_choice that is one of the
\* plan's allowed media types, normalize_plan sets
\* media_constraints.selected_type to exactly the user's choice.
C5_ChoiceHonoured ==
    (Planned /\ InList(UserChoice, AllowedTypes)) => SelectedType = UserChoice

\* the user chose the second of two allowed types and got it
C5_Witness ==
    /\ Planned
    /\ AllowedTypes = List(<<Str("image"), Str("video")>>)
    /\ UserChoice = Str("video")
    /\ SelectedType = Str("video")

\* C6: when user_media_choice is absent or is not one of the allowed media
\* types, normalize_plan falls back to the first element of allowed_types;
\* consequently selected_type is None exactly when allowed_types is empty
\* and is otherwise a member of allowed_types.
C6_Fallback ==
    Planned =>
        /\ (~InList(UserChoice, AllowedTypes) /\ Len(AllowedTypes.l) > 0
               => SelectedType = AllowedTypes.l[1])
        /\ (SelectedType = None <=> Len(AllowedTypes.l) = 0)
        /\ (SelectedType # None => InList(SelectedType, AllowedTypes))

\* orchestrate's normalize_plan fell back to "image" for a choice that the
\* plan does not allow
C6_Witness ==
    /\ prog = "orchestrate"
    /\ Planned
    /\ AllowedTypes = List(<<Str("image"), Str("video")>>)
    /\ UserChoice = Str("photo_carousel")
    /\ SelectedType = Str("image")

\* the inputs built by build_final_model_input, once they are built
InputsBuilt ==
    IF prog = "workflow" THEN "media_payload" \in DOMAIN state
    ELSE "final_input" \in DOMAIN state
MediaPayload ==
    IF prog = "workflow" THEN state["media_payload"]
    ELSE state["final_input"].d["media_payload"]

PayloadKeys ==
    {"media_model_input", "media_type", "media_constraints", "reference_image",
     "video_init_image"}
PayloadConstraintKeys ==
    {"allowed_types", "selected_type", "image", "video", "image_count", "aspect_ratio",
     "safe_zone_required", "ugc_style", "supports_audio", "recommended_use_cases"}

\* C7: for every normalized plan, user_inputs and uploaded_files, the
\* media_payload built by content_orchestration.build_final_model_input
\* contains all of the keys media_model_input, media_type, media_constraints,
\* reference_image, video_init_image, and its media_constraints contains all
\* of the ten constraint keys, whichever media type is selected and whichever
\* fields the rules omit.
C7_PayloadSchema ==
    (prog = "orchestrate" /\ InputsBuilt) =>
        /\ MediaPayload.t = "dict"
        /\ PayloadKeys \subseteq DOMAIN MediaPayload.d
        /\ MediaPayload.d["media_constraints"].t = "dict"
        /\ PayloadConstraintKeys \subseteq DOMAIN MediaPayload.d["media_constraints"].d

\* a payload built from rules that carry no media_constraints at all
C7_Witness ==
    /\ prog = "orchestrate"
    /\ InputsBuilt
    /\ "media_constraints" \notin DOMAIN raw_plan.d
    /\ MediaPayload.d["media_type"] = None
    /\ MediaPayload.d["media_model_input"] = None
    /\ MediaPayload.d["media_constraints"].d["supports_audio"] = Bool(FALSE)

\* C8: build_final_model_input passes the user's files through unchanged:
\* media_payload.reference_image and media_payload.video_init_image equal
\* uploaded_files' reference_image and video_init_image (None when not
\* supplied), independent of the plan and the selected media type.
C8_FilesPassThrough ==
    InputsBuilt =>
        LET uploaded_files == state["uploaded_files"] IN
        /\ MediaPayload.d["reference_image"] =
              (IF "reference_image" \in DOMAIN uploaded_files.d
               THEN uploaded_files.d["reference_image"] ELSE None)
        /\ MediaPayload.d["video_init_image"] =
              (IF "video_init_image" \in DOMAIN uploaded_files.d
               THEN uploaded_files.d["video_init_image"] ELSE None)

\* a start frame handed over although no video is selected, and no reference
\* image supplied
C8_Witness ==
    /\ prog = "workflow"
    /\ InputsBuilt
    /\ SelectedType # Str("video")
    /\ "reference_image" \notin DOMAIN state["uploaded_files"].d
    /\ MediaPayload.d["reference_image"] = None
    /\ MediaPayload.d["video_init_image"] = Str("http://cdn/frame.png")

\* C9 as stated: building the plan (build_generation_plan and therefore
\* load_platform_rules, normalize_plan, the prompt builders) leaves the file
\* system unchanged in every starting state, the one without a rules file
\* included.
C9_NoFileChange == [][fs' = fs]_vars

\* C9 amended: building the plan leaves an existing rules file unchanged; when
\* the rules file does not exist, load_platform_rules creates it with the
\* dummy configuration, and nothing else is written.
C9_OnlyCreatesMissingFile ==
    [][/\ (fs # None => fs' = fs)
       /\ (fs = None => fs' \in {fs, dummy_config})]_vars

\* the run started without a rules file; the plan was built and the file now
\* holds the dummy configuration
C9_Witness ==
    /\ PlanBuilt
    /\ Planned
    /\ fs = dummy_config

\* C10: each call of generate_text_with_gemini, generate_image_with_replicate
\* / _fal and generate_video_with_replicate / _fal invokes its external API at
\* most once, never lets an exception of that API reach its caller, and on
\* such an exception returns a string that starts with "Error generating".
C10_CatchAndReport ==
    \A i \in 1..Len(calls) :
        /\ Len(calls[i].api) <= 1
        /\ calls[i].ret.t = "str"
        /\ (calls[i].reply.kind = "raise" => StartsWith(calls[i].ret.s, "Error generating"))

\* the video service failed and the wrapper reported it as a string
C10_Witness ==
    \E i \in 1..Len(calls) :
        /\ calls[i].fn = "generate_video_with_replicate"
        /\ calls[i].reply.kind = "raise"
        /\ Len(calls[i].api) = 1
        /\ calls[i].ret = Str("Error generating video: timeout")

PlanKeys ==
    {"platform", "content_type", "objective", "tone", "text_constraints",
     "media_constraints", "cta_style", "optimization_goal", "variation_count", "_meta"}
PlanMediaKeys ==
    {"allowed_types", "selected_type", "raw", "image", "video", "image_count",
     "aspect_ratio", "safe_zone_required", "ugc_style", "supports_audio",
     "recommended_use_cases"}
MediaTypeNames == {Str("image"), Str("video"), Str("photo_carousel"), Str("text_only")}

\* C11: shape consistency of the normalized plan: for every raw plan (an
\* empty one, or one without media_constraints or text_constraints, included)
\* and every user_media_choice, the dict normalize_plan returns has the same
\* fixed set of top-level keys and the same fixed set of media_constraints
\* keys, and allowed_types is a list drawn from image, video, photo_carousel
\* and text_only.
C11_PlanShape ==
    Planned =>
        LET plan == state["generation_plan"] IN
        /\ plan.t = "dict"
        /\ DOMAIN plan.d = PlanKeys
        /\ plan.d["media_constraints"].t = "dict"
        /\ DOMAIN plan.d["media_constraints"].d = PlanMediaKeys
        /\ AllowedTypes.t = "list"
        /\ \A i \in 1..Len(AllowedTypes.l) : AllowedTypes.l[i] \in MediaTypeNames

\* normalize_plan was called on an empty raw plan and returned the full shape
C11_Witness ==
    /\ prog = "normalize"
    /\ pc = "normalized"
    /\ state["raw"] = EmptyDict
    /\ DOMAIN state["generation_plan"].d = PlanKeys
    /\ AllowedTypes = EmptyList
    /\ state["generation_plan"].d["text_constraints"] = EmptyDict

\* the init_image argument orchestrate passes to generate_video_with_replicate
InitImageArg ==
    Get(state["final_input"].d["media_payload"], "video_init_image", None)

\* C12: in generate_video_with_replicate a provided (non-empty) init_image is
\* used as the starting frame: the input sent to the video API contains an
\* "image" entry for every provided init_image value.
C12_InitImageUsed ==
    \A i \in 1..Len(calls) :
        (/\ calls[i].fn = "generate_video_with_replicate"
         /\ Truthy(InitImageArg))
        => \A k \in 1..Len(calls[i].api) : "image" \in DOMAIN calls[i].api[k].input.d

\* C13: build_generation_plan upper-cases the platform before the lookup and
\* checks the platform before the intent: it raises ValueError "Platform <P>
\* not found" when the upper-cased platform is not a key of the rules,
\* whatever the intent; it raises ValueError "Intent <I> not found for
\* platform <P>" when the platform exists but the intent, compared
\* case-sensitively, does not; in both cases no plan is returned.
C13_PlatformThenIntent ==
    PlanBuilt =>
        /\ PlatformKey \notin DOMAIN RulesRead.d
           => /\ raw_plan = Exc("ValueError", "Platform " \o PlatformKey \o " not found")
              /\ ~Planned
        /\ (/\ PlatformKey \in DOMAIN RulesRead.d
            /\ IntentKey \notin DOMAIN RulesRead.d[PlatformKey].d)
           => /\ raw_plan = Exc("ValueError", "Intent " \o IntentKey \o
                                              " not found for platform " \o PlatformKey)
              /\ ~Planned
        /\ (/\ PlatformKey \in DOMAIN RulesRead.d
            /\ IntentKey \in DOMAIN RulesRead.d[PlatformKey].d)
           => raw_plan # Exc("ValueError", "Platform " \o PlatformKey \o " not found")

\* platform "x" was found as "X" and the lower-case intent "promo" was not
C13_Witness ==
    /\ PlanBuilt
    /\ state["platform"] = Str("x")
    /\ state["intent"] = Str("promo")
    /\ "PROMO" \in DOMAIN RulesRead.d["X"].d
    /\ raw_plan = Exc("ValueError", "Intent promo not found for platform X")
    /\ ~Planned

\* the planner has run in this workflow run and produced no plan
PlannerFailed == prog = "workflow" /\ Len(trace) >= 1 /\ ~Planned

\* C14: if planner_node fails, then in the rest of that workflow run no
\* external text, image or video API is called, generated_text and
\* generated_media_url are never set, the status stays "failed" up to the
\* final state, and the first entry of the errors list starts with
\* "Planner failed:".
C14_PlannerFailureStopsWork ==
    PlannerFailed =>
        /\ calls = <<>>
        /\ "generated_text" \notin DOMAIN state
        /\ "generated_media_url" \notin DOMAIN state
        /\ state["status"] = Str("failed")
        /\ Len(state["errors"].l) = Len(trace)
        /\ StartsWith(state["errors"].l[1].s, "Planner failed:")
        /\ pc = "responded" =>
              /\ result.d["generated_text"] = None
              /\ result.d["generated_media_url"] = None
              /\ result.d["errors"] = state["errors"]

\* a run for an unknown platform reached END: every node failed in turn
C14_Witness ==
    /\ PlannerFailed
    /\ pc = "END"
    /\ trace = Nodes
    /\ calls = <<>>
    /\ Len(state["errors"].l) = 5
    /\ state["errors"].l[1] = Str("Planner failed: Platform TIKTOK not found")
    /\ state["status"] = Str("failed")

\* C15: errors accumulate across the workflow: once a node has appended a
\* failure message to the state's errors list, that message is still present
\* in errors in every later state of the same run, including the final state
\* returned by invoke and reported by /generate.
C15_ErrorsAccumulate ==
    [][prog = "workflow" =>
          /\ \A i \in 1..Len(state["errors"].l) :
                 InList(state["errors"].l[i], state'["errors"])
          /\ pc' = "responded" => result'.d["errors"] = state["errors"]]_vars

\* C16: status "failed" is sticky: once any node of a workflow run sets
\* status to "failed", status is "failed" in every later state of that run,
\* so a final status of "media_produced" or "media_producer_skipped" implies
\* that no node failed.
C16_FailedIsSticky ==
    [][(/\ prog = "workflow"
        /\ "status" \in DOMAIN state
        /\ state["status"] = Str("failed"))
       => state'["status"] = Str("failed")]_vars

====
